---- MODULE Spec2Model ----
(***************************************************************************)
(* A model of the two training scripts of NLP-with-Transformers:           *)
(*   src/RNN.py               character-level LSTM language model          *)
(*   src/Transformermodel.py  encoder-decoder Transformer on paired text   *)
(*                                                                         *)
(* Tokens are single characters, modelled as one-character strings; a text *)
(* is the sequence of characters a file opened in text mode delivers.      *)
(* Tensors of token IDs are sequences of integers                          *)
(* (a 2-D tensor is a sequence of rows).  Python dictionaries are TLA+     *)
(* functions whose DOMAIN is the key set.  The weights of the networks are *)
(* not modelled: where complete() takes an arg-max or a sample of the      *)
(* LSTM's output, the model chooses any token ID of the vocabulary.  A     *)
(* call the library refuses for the shape or type of its argument raises   *)
(* in the model as well.                                                   *)
(***************************************************************************)
EXTENDS Integers, Sequences, FiniteSets, TLC

VARIABLES
    script,      \* which script's Vocabulary class `vocab` is an object of
    vocab,       \* a Vocabulary object, called directly
    src_vocab,   \* Transformermodel.py: the source Vocabulary object
    trg_vocab,   \* Transformermodel.py: the target Vocabulary object
    last,        \* the last call made on a vocabulary: arguments and result
    my_data,     \* RNN.py:156  the TextData object (data, vocab)
    batches,     \* RNN.py:157  the DataBatches object
    train_set,   \* Transformermodel.py:182  ParallelTextDataset
    valid_set,   \* Transformermodel.py:191  ParallelTextDataset
    cmp,         \* RNN.py:200  the frame of a complete() call
    gs,          \* Transformermodel.py:328  the frame of a greedy_search() call
    tr,          \* Transformermodel.py:399  the frame of the training loop
    posenc,      \* Transformermodel.py:214  a PositionalEncoding and its last call
    lstm         \* RNN.py:274  the frame of the LSTM training loop

vars == <<script, vocab, src_vocab, trg_vocab, last, my_data, batches,
          train_set, valid_set, cmp, gs, tr, posenc, lstm>>

(***************************************************************************)
(* Bounds of the model.                                                    *)
(***************************************************************************)
MaxTextLen == 4      \* characters in a corpus file (RNN path)
MaxBsz == 3          \* lane counts 1..MaxBsz
MaxBptt == 3         \* window lengths 1..MaxBptt
MaxTrainLen == 5     \* characters in a source file plus its target file
MaxEvalLen == 2      \* the same, for an evaluation pair
MaxCorpusLen == 2    \* characters in the corpus a decoding run's vocabulary is from
MaxPromptLen == 2    \* characters in a prompt
MaxSteps == 2        \* decoding steps asked of complete()
MaxBatch == 3        \* batch elements given to greedy_search()
MaxTgtLen == 2       \* rows of the tgt tensor given to greedy_search()
MaxDecodeLen == 2    \* max_len given to greedy_search()
MaxSrcLen == 2       \* rows of the src tensor given to greedy_search()
MaxAccum == 3        \* accumulation_steps in 1..MaxAccum
MaxTrainBatches == 4 \* len(train_data_loader) in 1..MaxTrainBatches
MaxValidBatches == 2 \* len(valid_data_loader) in 1..MaxValidBatches
MaxPosLen == 4       \* max_len of a PositionalEncoding in 1..MaxPosLen
MaxSeqLen == 5       \* rows of the tensor given to PositionalEncoding.forward
MaxLanes == 2        \* batch_size of the LSTM training loop in 1..MaxLanes
MaxReport == 2       \* report_every in 1..MaxReport
MaxEpochs == 2       \* num_epochs of the LSTM training loop
MaxVocabLen == 5     \* direct add_new_word calls stop at this vocabulary size

Chars == {"a", "b", "\n"}

Min(a, b) == IF a < b THEN a ELSE b

\* The characters of the training pair; evaluation files also hold "b".
TrainChars == {"a", "\n"}

TextsOver(chars, n) == UNION {[1..k -> chars] : k \in 0..n}
TextsUpTo(n) == TextsOver(Chars, n)

\* Pairs of files whose lengths add up to at most n.
FilePairs(chars, n) == UNION {[1..k -> chars] \X TextsOver(chars, n - k) : k \in 0..n}

\* The inputs the specifications draw from.
Corpora == TextsUpTo(MaxTextLen)
TrainPairs == FilePairs(TrainChars, MaxTrainLen)
EvalPairs == FilePairs(Chars, MaxEvalLen)

(***************************************************************************)
(* Python built-ins.                                                       *)
(***************************************************************************)
EmptyDict == [k \in {} |-> 0]

\* d[k] = v
DictSet(d, k, v) == [x \in (DOMAIN d) \cup {k} |-> IF x = k THEN v ELSE d[x]]

\* len(d)
DictLen(d) == Cardinality(DOMAIN d)

\* s[a:b] for 0 <= a, on a sequence
PySlice(s, a, b) == SubSeq(s, a + 1, Min(b, Len(s)))

\* `for line in text`: a file is cut after every "\n"; a last line that does
\* not end in "\n" is a line too.
RECURSIVE LinesFrom(_, _)
LinesFrom(text, cur) ==
    IF text = <<>> THEN (IF cur = <<>> THEN <<>> ELSE <<cur>>)
    ELSE IF Head(text) = "\n"
         THEN <<Append(cur, "\n")>> \o LinesFrom(Tail(text), <<>>)
         ELSE LinesFrom(Tail(text), Append(cur, Head(text)))

\* A slip in the reader: lines are stripped of their terminator.
RECURSIVE StrippedLinesFrom(_, _)
StrippedLinesFrom(text, cur) ==
    IF text = <<>> THEN (IF cur = <<>> THEN <<>> ELSE <<cur>>)
    ELSE IF Head(text) = "\n"
         THEN <<cur>> \o StrippedLinesFrom(Tail(text), <<>>)
         ELSE StrippedLinesFrom(Tail(text), Append(cur, Head(text)))

Lines_stripped(text) == StrippedLinesFrom(text, <<>>)

Lines(text) == LinesFrom(text, <<>>)

(***************************************************************************)
(* class Vocabulary (both scripts).                                        *)
(***************************************************************************)
pad_token == "<pad>"
unk_token == "<unk>"
eos_token == "<eos>"
sos_token == "<sos>"

\* RNN.py: Vocabulary.__init__
VocabularyRNN ==
    LET i0 == DictSet(EmptyDict, 0, pad_token)
        s0 == DictSet(EmptyDict, pad_token, 0)
        i1 == DictSet(i0, 1, unk_token)
        s1 == DictSet(s0, unk_token, 1)
    IN  [id_to_string |-> i1, string_to_id |-> s1, pad_id |-> 0, unk_id |-> 1]

\* Transformermodel.py: Vocabulary.__init__
VocabularyTransformer ==
    LET i0 == DictSet(EmptyDict, 0, pad_token)
        s0 == DictSet(EmptyDict, pad_token, 0)
        i1 == DictSet(i0, 1, unk_token)
        s1 == DictSet(s0, unk_token, 1)
        i2 == DictSet(i1, 2, eos_token)
        s2 == DictSet(s1, eos_token, 2)
        i3 == DictSet(i2, 3, sos_token)
        s3 == DictSet(s2, sos_token, 3)
    IN  [id_to_string |-> i3, string_to_id |-> s3, pad_id |-> 0, unk_id |-> 1,
         eos_id |-> 2, sos_id |-> 3]

\* Vocabulary.__len__
VocabLen(v) == DictLen(v.id_to_string)

\* A slip in add_new_word: both insertions done before the second length is read.
add_new_word_stale(v, string) ==
    LET s == DictSet(v.string_to_id, string, DictLen(v.string_to_id))
    IN  [v EXCEPT !.string_to_id = s,
                  !.id_to_string = DictSet(v.id_to_string, DictLen(s), string)]

\* Vocabulary.add_new_word: the vocabulary after the call
add_new_word(v, string) ==
    LET s == DictSet(v.string_to_id, string, DictLen(v.string_to_id))
    IN  [v EXCEPT !.string_to_id = s,
                  !.id_to_string = DictSet(v.id_to_string, DictLen(v.id_to_string), string)]

\* A slip in get_idx: a closed vocabulary records the unseen string anyway.
get_idx_leaky(v, string, extend_vocab) ==
    IF string \in DOMAIN v.string_to_id
    THEN [vocab |-> v, idx |-> v.string_to_id[string]]
    ELSE LET w == add_new_word(v, string)
         IN  [vocab |-> w, idx |-> IF extend_vocab THEN w.string_to_id[string]
                                   ELSE v.unk_id]

\* Vocabulary.get_idx: the returned ID and the vocabulary after the call
get_idx(v, string, extend_vocab) ==
    IF string \in DOMAIN v.string_to_id
    THEN [vocab |-> v, idx |-> v.string_to_id[string]]
    ELSE IF extend_vocab
         THEN LET w == add_new_word(v, string)
              IN  [vocab |-> w, idx |-> w.string_to_id[string]]
         ELSE [vocab |-> v, idx |-> v.unk_id]

\* The inner loop `for token in tokens: seq.append(vocab.get_idx(token, ...))`
\* of both corpus readers: the IDs appended to seq, and the vocabulary after.
RECURSIVE EncodeTokens(_, _, _, _)
EncodeTokens(tokens, v, extend_vocab, seq) ==
    IF tokens = <<>> THEN [seq |-> seq, vocab |-> v]
    ELSE LET r == get_idx(v, Head(tokens), extend_vocab)
         IN  EncodeTokens(Tail(tokens), r.vocab, extend_vocab, Append(seq, r.idx))

\* The outer loop `for line in text` around it.
RECURSIVE EncodeLines(_, _, _, _)
EncodeLines(lines, v, extend_vocab, seq) ==
    IF lines = <<>> THEN [seq |-> seq, vocab |-> v]
    ELSE LET r == EncodeTokens(Head(lines), v, extend_vocab, seq)
         IN  EncodeLines(Tail(lines), r.vocab, extend_vocab, r.seq)

(***************************************************************************)
(* RNN.py: class TextData.                                                 *)
(***************************************************************************)
\* The `vocab=None` default argument.
None == [none |-> TRUE]

\* TextData.text_to_data: (data, vocab)
text_to_data(text_file, vocab_arg, extend_vocab) ==
    LET v == IF vocab_arg = None THEN VocabularyRNN ELSE vocab_arg
        r == EncodeLines(Lines(text_file), v, extend_vocab, <<>>)
    IN  [data |-> r.seq, vocab |-> r.vocab]

(***************************************************************************)
(* RNN.py: class DataBatches.                                              *)
(***************************************************************************)
\* padded.new_full((1, bsz), pad_id)
PadRow(bsz, pad_id) == [lane \in 1..bsz |-> pad_id]

\* new_full((segment_len * bsz,), pad_id); padded[:text_len] = input_data.data
PaddedFlat(data, segment_len, bsz, pad_id) ==
    [k \in 1..(segment_len * bsz) |-> IF k <= Len(data) THEN data[k] ELSE pad_id]

\* padded.view(bsz, segment_len).t(): row t (time), column lane
ViewT(flat, bsz, segment_len) ==
    [t \in 1..segment_len |-> [lane \in 1..bsz |-> flat[(lane - 1) * segment_len + t]]]

\* A slip in the loop body: every window starts at its own boundary.
BatchAt_nooverlap(padded, i, bsz, bptt_len, pad_id) ==
    IF i = 0
    THEN <<PadRow(bsz, pad_id)>> \o PySlice(padded, i * bptt_len, (i + 1) * bptt_len)
    ELSE PySlice(padded, i * bptt_len, (i + 1) * bptt_len)

\* The body of `for i in range(num_batches)`: the i-th element of `batches`
BatchAt(padded, i, bsz, bptt_len, pad_id) ==
    IF i = 0
    THEN <<PadRow(bsz, pad_id)>> \o PySlice(padded, i * bptt_len, (i + 1) * bptt_len)
    ELSE PySlice(padded, i * bptt_len - 1, (i + 1) * bptt_len)

\* DataBatches.create_batch, with its locals; the return value is .batches
create_batch(data, bsz, bptt_len, pad_id) ==
    LET text_len == Len(data)
        segment_len == (text_len \div bsz) + 1
        padded == ViewT(PaddedFlat(data, segment_len, bsz, pad_id), bsz, segment_len)
        num_batches == (segment_len \div bptt_len) + 1
    IN  [text_len |-> text_len, bsz |-> bsz, bptt_len |-> bptt_len,
         pad_id |-> pad_id, segment_len |-> segment_len, padded |-> padded,
         num_batches |-> num_batches,
         batches |-> [n \in 1..num_batches |->
                         BatchAt(padded, n - 1, bsz, bptt_len, pad_id)]]

(***************************************************************************)
(* Transformermodel.py: class ParallelTextDataset.                         *)
(***************************************************************************)
\* The two length scans: the longest line of a file.
RECURSIVE MaxLineLen(_, _)
MaxLineLen(lines, max) ==
    IF lines = <<>> THEN max
    ELSE MaxLineLen(Tail(lines), IF max < Len(Head(lines)) THEN Len(Head(lines)) ELSE max)

\* var_seq.data.new(n).fill_(pad); new_seq[:var_len] = var_seq
PadTo(seq, n, pad) == [k \in 1..n |-> IF k <= Len(seq) THEN seq[k] ELSE pad]

\* A slip in the target loop: the end token is not appended.
EncodeTargetLine_noeos(tokens, v, extend_vocab) ==
    EncodeTokens(tokens, v, extend_vocab, <<v.sos_id>>)

\* One target line: start token, the line's IDs, end token.
EncodeTargetLine(tokens, v, extend_vocab) ==
    LET r == EncodeTokens(tokens, v, extend_vocab, <<v.sos_id>>)
    IN  [seq |-> Append(r.seq, v.eos_id), vocab |-> r.vocab]

\* The loop that fills src_list.
RECURSIVE SrcList(_, _, _, _, _)
SrcList(lines, v, extend_vocab, src_max, list) ==
    IF lines = <<>> THEN [list |-> list, vocab |-> v]
    ELSE LET r == EncodeTokens(Head(lines), v, extend_vocab, <<>>)
         IN  SrcList(Tail(lines), r.vocab, extend_vocab, src_max,
                     Append(list, PadTo(r.seq, src_max, v.pad_id)))

\* The loop that fills tgt_list.
RECURSIVE TgtList(_, _, _, _, _)
TgtList(lines, v, extend_vocab, tgt_max, list) ==
    IF lines = <<>> THEN [list |-> list, vocab |-> v]
    ELSE LET r == EncodeTargetLine(Head(lines), v, extend_vocab)
         IN  TgtList(Tail(lines), r.vocab, extend_vocab, tgt_max,
                     Append(list, PadTo(r.seq, tgt_max, v.pad_id)))

\* ParallelTextDataset.parallel_text_to_data.  ok = FALSE is the AssertionError
\* of `assert len(src_list) == len(tgt_list)`; the vocabularies are the two
\* objects as the call leaves them, also when it raises.
parallel_text_to_data(src_file, tgt_file, src_vocab_arg, tgt_vocab_arg, extend_vocab) ==
    LET sv == IF src_vocab_arg = None THEN VocabularyTransformer ELSE src_vocab_arg
        tv == IF tgt_vocab_arg = None THEN VocabularyTransformer ELSE tgt_vocab_arg
        src_max == MaxLineLen(Lines(src_file), 0)
        tgt_max == MaxLineLen(Lines(tgt_file), 0) + 2
        s == SrcList(Lines(src_file), sv, extend_vocab, src_max, <<>>)
        t == TgtList(Lines(tgt_file), tv, extend_vocab, tgt_max, <<>>)
        ok == Len(s.list) = Len(t.list)
    IN  [ok |-> ok,
         data |-> IF ok THEN [i \in 1..Len(s.list) |-> <<s.list[i], t.list[i]>>]
                  ELSE <<>>,
         src_vocab |-> s.vocab, trg_vocab |-> t.vocab,
         src_max_seq_length |-> src_max, tgt_max_seq_length |-> tgt_max]

(***************************************************************************)
(* What each variable holds while its part of the program is not running.  *)
(***************************************************************************)
Unbuilt == [status |-> "unbuilt"]
Idle == [pc |-> "idle"]
NoCall == [op |-> "none"]

NoVocabulary == script = "none" /\ vocab = None
NoRNNData == my_data = Unbuilt /\ batches = Unbuilt
NoParallelData ==
    src_vocab = None /\ trg_vocab = None /\ train_set = Unbuilt /\ valid_set = Unbuilt
NoRuns == cmp = Idle /\ gs = Idle /\ tr = Idle /\ posenc = Idle /\ lstm = Idle

(***************************************************************************)
(* SpecVocab: a Vocabulary object of either script under any sequence of   *)
(* get_idx calls.                                                          *)
(***************************************************************************)
\* The strings get_idx is called with: characters, and the reserved tokens'
\* own spellings.
Strings == Chars \cup {pad_token, unk_token, eos_token, sos_token}

InitVocab ==
    /\ script \in {"RNN", "Transformer"}
    /\ vocab = IF script = "RNN" THEN VocabularyRNN ELSE VocabularyTransformer
    /\ last = NoCall
    /\ NoRNNData /\ NoParallelData /\ NoRuns

\* vocab.get_idx(string, extend_vocab)
GetIdxCall(string, extend_vocab) ==
    /\ script \in {"RNN", "Transformer"}
    /\ LET r == get_idx(vocab, string, extend_vocab)
       IN  /\ vocab' = r.vocab
           /\ last' = [op |-> "get_idx", on |-> "vocab", string |-> string,
                       extend_vocab |-> extend_vocab, idx |-> r.idx, before |-> vocab]
    /\ UNCHANGED <<script, src_vocab, trg_vocab, my_data, batches, train_set,
                   valid_set, cmp, gs, tr, posenc, lstm>>

\* vocab.add_new_word(string), called directly: RNN.py:29-31,
\* Transformermodel.py:45-47.  It does not look the string up first.
AddNewWordCall(string) ==
    /\ script \in {"RNN", "Transformer"}
    /\ VocabLen(vocab) < MaxVocabLen
    /\ vocab' = add_new_word(vocab, string)
    /\ last' = [op |-> "add_new_word", on |-> "vocab", string |-> string,
                before |-> vocab]
    /\ UNCHANGED <<script, src_vocab, trg_vocab, my_data, batches, train_set,
                   valid_set, cmp, gs, tr, posenc, lstm>>

NextVocab ==
    \/ \E string \in Strings, extend_vocab \in BOOLEAN :
          GetIdxCall(string, extend_vocab)
    \/ \E string \in Strings : AddNewWordCall(string)

SpecVocab == InitVocab /\ [][NextVocab]_vars

(***************************************************************************)
(* SpecData: RNN.py lines 156-157, my_data = TextData(...) and then        *)
(* batches = DataBatches(my_data, batch_size, bptt_len, pad_id=0).         *)
(***************************************************************************)
\* Vocabularies a caller may pass to TextData: none, or one built before.
PriorVocabs == {None} \cup {text_to_data(t, None, TRUE).vocab : t \in TextsUpTo(1)}

InitData ==
    /\ NoVocabulary /\ last = NoCall
    /\ NoRNNData /\ NoParallelData /\ NoRuns

\* my_data = TextData(file_path, vocab, extend_vocab)
TextDataCall(text_file, vocab_arg, extend_vocab) ==
    /\ my_data = Unbuilt
    /\ LET r == text_to_data(text_file, vocab_arg, extend_vocab)
       IN  my_data' = [status |-> "built", data |-> r.data, vocab |-> r.vocab,
                       text_file |-> text_file, vocab_arg |-> vocab_arg,
                       extend_vocab |-> extend_vocab]
    /\ UNCHANGED <<script, vocab, src_vocab, trg_vocab, last, batches, train_set,
                   valid_set, cmp, gs, tr, posenc, lstm>>

\* batches = DataBatches(my_data, bsz, bptt_len, pad_id)
DataBatchesCall(bsz, bptt_len) ==
    /\ my_data.status = "built"
    /\ batches = Unbuilt
    /\ LET r == create_batch(my_data.data, bsz, bptt_len, 0)
       IN  batches' = [status |-> "built", batches |-> r.batches, locals |-> r]
    /\ UNCHANGED <<script, vocab, src_vocab, trg_vocab, last, my_data, train_set,
                   valid_set, cmp, gs, tr, posenc, lstm>>

NextData ==
    \/ \E text_file \in Corpora, vocab_arg \in PriorVocabs,
          extend_vocab \in BOOLEAN : TextDataCall(text_file, vocab_arg, extend_vocab)
    \/ \E bsz \in 1..MaxBsz, bptt_len \in 1..MaxBptt : DataBatchesCall(bsz, bptt_len)

SpecData == InitData /\ [][NextData]_vars

(***************************************************************************)
(* Claims about the Vocabulary (SpecVocab).                                *)
(***************************************************************************)
\* string_to_id and id_to_string are inverse bijections on the IDs 0..len-1.
Bijective(v) ==
    /\ DOMAIN v.id_to_string = 0..(VocabLen(v) - 1)
    /\ {v.string_to_id[x] : x \in DOMAIN v.string_to_id} = DOMAIN v.id_to_string
    /\ {v.id_to_string[i] : i \in DOMAIN v.id_to_string} = DOMAIN v.string_to_id
    /\ \A x \in DOMAIN v.string_to_id : v.id_to_string[v.string_to_id[x]] = x
    /\ \A i \in DOMAIN v.id_to_string : v.string_to_id[v.id_to_string[i]] = i

\* The maps of `vocab` are inverse bijections over exactly the IDs 0..len-1,
\* with the reserved strings at their IDs.
WellFormed ==
    script # "none" =>
        /\ Bijective(vocab)
        /\ vocab.id_to_string[0] = pad_token /\ vocab.pad_id = 0
        /\ vocab.id_to_string[1] = unk_token /\ vocab.unk_id = 1
        /\ script = "Transformer" =>
              /\ vocab.id_to_string[2] = eos_token /\ vocab.eos_id = 2
              /\ vocab.id_to_string[3] = sos_token /\ vocab.sos_id = 3

\* C1: after construction and after any sequence of get_idx calls, string_to_id
\* and id_to_string are inverse bijections over exactly the IDs 0..len-1, with
\* pad at 0 and unknown at 1, and in the Transformer variant end-of-sequence at
\* 2 and start-of-sequence at 3: the vocabulary is so when constructed, and a
\* get_idx call on a vocabulary that is so leaves it so.  (A direct
\* add_new_word call on a string already present does not.)
C1_VocabularyBijection ==
    /\ (last = NoCall => WellFormed)
    /\ [][(WellFormed /\ last'.op = "get_idx") => WellFormed']_vars

\* A vocabulary that grew by two words and was then asked, closed, for a
\* string it does not know.
C1_Witness ==
    /\ script = "Transformer"
    /\ VocabLen(vocab) = 6
    /\ last.op = "get_idx" /\ ~last.extend_vocab
    /\ last.string \notin DOMAIN vocab.string_to_id

(***************************************************************************)
(* Claims about TextData and DataBatches (SpecData).                       *)
(***************************************************************************)
\* C3: encoding a text character by character with extend_vocab=True yields
\* as many IDs as the text has characters, and mapping every ID back through
\* id_to_string reconstructs the text.
C3_RoundTrip ==
    (my_data.status = "built" /\ my_data.extend_vocab) =>
        /\ Len(my_data.data) = Len(my_data.text_file)
        /\ \A k \in 1..Len(my_data.data) :
               my_data.data[k] \in DOMAIN my_data.vocab.id_to_string
        /\ [k \in 1..Len(my_data.data) |-> my_data.vocab.id_to_string[my_data.data[k]]]
               = my_data.text_file

\* A text of two lines in which a character repeats, encoded into a
\* vocabulary that already held a word.
C3_Witness ==
    /\ my_data.status = "built" /\ my_data.extend_vocab
    /\ my_data.vocab_arg # None
    /\ my_data.text_file = <<"a", "\n", "a", "b">>
    /\ my_data.data = <<2, 3, 2, 4>>

CeilDiv(a, b) == (a + b - 1) \div b

\* C4: for a corpus of L >= 1 IDs, segment_len = ceil(L/B); the padded grid
\* has B * ceil(L/B) cells, and the cells after the first L hold the pad ID.
C4_SegmentLenIsCeil ==
    (batches.status = "built" /\ batches.locals.text_len >= 1) =>
        LET c == batches.locals
            flat == PaddedFlat(my_data.data, c.segment_len, c.bsz, c.pad_id)
        IN  /\ c.segment_len = CeilDiv(c.text_len, c.bsz)
            /\ Len(c.padded) * c.bsz = c.bsz * CeilDiv(c.text_len, c.bsz)
            /\ \A k \in (c.text_len + 1)..Len(flat) : flat[k] = c.pad_id

\* C5: for a corpus of L >= 1 IDs there are ceil(segment_len / W) windows,
\* each of W+1 rows, except that the final window is shorter only when W does
\* not divide segment_len.
C5_WindowCount ==
    (batches.status = "built" /\ batches.locals.text_len >= 1) =>
        LET c == batches.locals
            bs == batches.batches
        IN  /\ Len(bs) = CeilDiv(c.segment_len, c.bptt_len)
            /\ \A n \in 1..(Len(bs) - 1) : Len(bs[n]) = c.bptt_len + 1
            /\ Len(bs[Len(bs)]) <= c.bptt_len + 1
            /\ Len(bs[Len(bs)]) < c.bptt_len + 1 => c.segment_len % c.bptt_len # 0

RECURSIVE ConcatTails(_)
ConcatTails(bs) ==
    IF bs = <<>> THEN <<>> ELSE Tail(Head(bs)) \o ConcatTails(Tail(bs))

\* C6: window 0 begins with an all-pad row, the last row of every window is
\* the first row of the next, and the windows' rows, each window's first row
\* dropped, are the rows of the padded grid in order.
C6_WindowsTile ==
    batches.status = "built" =>
        LET c == batches.locals
            bs == batches.batches
        IN  /\ \A n \in 1..Len(bs) : Len(bs[n]) >= 1
            /\ bs[1][1] = [lane \in 1..c.bsz |-> c.pad_id]
            /\ \A n \in 1..(Len(bs) - 1) : bs[n][Len(bs[n])] = bs[n + 1][1]
            /\ ConcatTails(bs) = c.padded

\* Two windows of two lanes over a grid whose rows differ, the second shorter.
C6_Witness ==
    /\ batches.status = "built"
    /\ batches.locals.bsz = 2 /\ batches.locals.bptt_len = 2
    /\ batches.locals.padded = <<<<2, 4>>, <<3, 0>>, <<2, 0>>>>
    /\ batches.batches = << <<<<0, 0>>, <<2, 4>>, <<3, 0>>>>,
                            <<<<3, 0>>, <<2, 0>>>> >>

(***************************************************************************)
(* SpecParallel: Transformermodel.py lines 179-193.  train_set is built    *)
(* with fresh vocabularies and extend_vocab=True; its vocabularies become  *)
(* src_vocab and trg_vocab; they may be asked for IDs; valid_set is built  *)
(* on them with extend_vocab=False.  A failed assertion ends the script.   *)
(***************************************************************************)
InitParallel ==
    /\ NoVocabulary /\ last = NoCall
    /\ NoRNNData /\ NoParallelData /\ NoRuns

\* The ParallelTextDataset object a construction leaves, with its arguments.
Dataset(r, src_file, tgt_file, src_vocab_arg, trg_vocab_arg, extend_vocab) ==
    [status |-> IF r.ok THEN "built" ELSE "AssertionError",
     data |-> r.data, src_vocab |-> r.src_vocab, trg_vocab |-> r.trg_vocab,
     src_max_seq_length |-> r.src_max_seq_length,
     tgt_max_seq_length |-> r.tgt_max_seq_length,
     src_file |-> src_file, tgt_file |-> tgt_file,
     src_vocab_arg |-> src_vocab_arg, trg_vocab_arg |-> trg_vocab_arg,
     extend_vocab |-> extend_vocab]

\* train_set = ParallelTextDataset(src_file_path, trg_file_path, extend_vocab=True)
\* src_vocab = train_set.src_vocab; trg_vocab = train_set.trg_vocab
TrainSetCall(src_file, tgt_file) ==
    /\ train_set = Unbuilt
    /\ LET r == parallel_text_to_data(src_file, tgt_file, None, None, TRUE)
       IN  /\ train_set' = Dataset(r, src_file, tgt_file, None, None, TRUE)
           /\ src_vocab' = IF r.ok THEN r.src_vocab ELSE src_vocab
           /\ trg_vocab' = IF r.ok THEN r.trg_vocab ELSE trg_vocab
    /\ last' = [op |-> "ParallelTextDataset"]
    /\ UNCHANGED <<script, vocab, my_data, batches, valid_set, cmp, gs, tr, posenc, lstm>>

\* src_vocab.get_idx(string) or trg_vocab.get_idx(string): extend_vocab
\* takes its default, False.
LookupCall(on, string) ==
    /\ train_set.status = "built"
    /\ valid_set = Unbuilt
    /\ LET v == IF on = "src_vocab" THEN src_vocab ELSE trg_vocab
           r == get_idx(v, string, FALSE)
       IN  /\ src_vocab' = IF on = "src_vocab" THEN r.vocab ELSE src_vocab
           /\ trg_vocab' = IF on = "trg_vocab" THEN r.vocab ELSE trg_vocab
           /\ last' = [op |-> "get_idx", on |-> on, string |-> string,
                       extend_vocab |-> FALSE, idx |-> r.idx, before |-> v]
    /\ UNCHANGED <<script, vocab, my_data, batches, train_set, valid_set, cmp, gs, tr, posenc, lstm>>

\* valid_set = ParallelTextDataset(src_file_path, trg_file_path,
\*     src_vocab=src_vocab, trg_vocab=trg_vocab, extend_vocab=False)
\* The two Vocabulary objects are passed by reference: what the call does to
\* them is what src_vocab and trg_vocab hold afterwards.
ValidSetCall(src_file, tgt_file) ==
    /\ train_set.status = "built"
    /\ valid_set = Unbuilt
    /\ LET r == parallel_text_to_data(src_file, tgt_file, src_vocab, trg_vocab, FALSE)
       IN  /\ valid_set' = Dataset(r, src_file, tgt_file, src_vocab, trg_vocab, FALSE)
           /\ src_vocab' = r.src_vocab
           /\ trg_vocab' = r.trg_vocab
    /\ last' = [op |-> "ParallelTextDataset"]
    /\ UNCHANGED <<script, vocab, my_data, batches, train_set, cmp, gs, tr, posenc, lstm>>

NextParallel ==
    \/ \E p \in TrainPairs : TrainSetCall(p[1], p[2])
    \/ \E on \in {"src_vocab", "trg_vocab"}, string \in Strings : LookupCall(on, string)
    \/ \E p \in EvalPairs : ValidSetCall(p[1], p[2])

SpecParallel == InitParallel /\ [][NextParallel]_vars

(***************************************************************************)
(* Claims about the closed vocabulary and the paired dataset               *)
(* (SpecParallel).                                                         *)
(***************************************************************************)
\* The Vocabulary object a recorded get_idx call was made on, as it is now.
Receiver == IF last.on = "src_vocab" THEN src_vocab ELSE trg_vocab

\* C2: get_idx(s, extend_vocab=False) on a string s the vocabulary does not
\* hold returns the unknown ID 1 and leaves string_to_id, id_to_string and
\* the size as they were; and building valid_set with extend_vocab=False
\* leaves the source and target vocabularies passed to it as they were.
C2_ClosedLookup ==
    /\ (/\ last.op = "get_idx" /\ ~last.extend_vocab
        /\ last.string \notin DOMAIN last.before.string_to_id)
       => /\ last.idx = 1
          /\ Receiver.string_to_id = last.before.string_to_id
          /\ Receiver.id_to_string = last.before.id_to_string
          /\ VocabLen(Receiver) = VocabLen(last.before)
    /\ valid_set.status # "unbuilt"
       => /\ src_vocab = valid_set.src_vocab_arg
          /\ trg_vocab = valid_set.trg_vocab_arg

\* The source vocabulary of a training set, which learnt two characters, is
\* asked for "b", which it never saw.
C2_Witness ==
    /\ last.op = "get_idx" /\ last.on = "src_vocab" /\ last.string = "b"
    /\ VocabLen(last.before) = 6
    /\ "b" \notin DOMAIN last.before.string_to_id
    /\ last.idx = 1

SetMax(S) == IF S = {} THEN 0 ELSE CHOOSE m \in S : \A x \in S : x <= m

\* The ID a finished vocabulary gives a character: its own, or unknown.
IdOf(v, c) == IF c \in DOMAIN v.string_to_id THEN v.string_to_id[c] ELSE v.unk_id

\* What C7 says of one constructed dataset d.
PairedByLine(d) ==
    LET sl == Lines(d.src_file)
        tl == Lines(d.tgt_file)
        smax == SetMax({Len(sl[i]) : i \in 1..Len(sl)})
        tmax == SetMax({Len(tl[i]) : i \in 1..Len(tl)}) + 2
    IN  /\ (d.status = "AssertionError") <=> (Len(sl) # Len(tl))
        /\ d.status = "built" =>
             /\ Len(d.data) = Len(sl)
             /\ \A i \in 1..Len(d.data) :
                  LET src == d.data[i][1]
                      tgt == d.data[i][2]
                      n == Len(sl[i])
                      m == Len(tl[i])
                  IN  /\ Len(src) = smax
                      /\ \A j \in 1..n : src[j] = IdOf(d.src_vocab, sl[i][j])
                      /\ \A j \in (n + 1)..smax : src[j] = 0
                      /\ Len(tgt) = tmax
                      /\ tgt[1] = 3
                      /\ \A j \in 1..m : tgt[j + 1] = IdOf(d.trg_vocab, tl[i][j])
                      /\ tgt[m + 2] = 2
                      /\ \A j \in (m + 3)..tmax : tgt[j] = 0

\* C7: with equal line counts the dataset holds one example per line index,
\* source line i with target line i; the source is the line's IDs padded with
\* pad to the longest source line; the target is start-marker, the line's
\* IDs, end-marker, padded with pad to the longest target line + 2; with
\* unequal line counts the construction fails with an assertion.
C7_PairedByLine ==
    /\ train_set.status # "unbuilt" => PairedByLine(train_set)
    /\ valid_set.status # "unbuilt" => PairedByLine(valid_set)

\* A training pair of two lines each, the second source line shorter than the
\* first, and a validation pair whose only character was never seen.
C7_Witness ==
    /\ train_set.status = "built"
    /\ train_set.src_file = <<"a", "\n", "\n">>
    /\ train_set.tgt_file = <<"\n", "a">>
    /\ train_set.data = << << <<4, 5>>, <<3, 4, 2>> >>,
                           << <<5, 0>>, <<3, 5, 2>> >> >>
    /\ valid_set.status = "built"
    /\ valid_set.src_file = <<"b">> /\ valid_set.tgt_file = <<"b">>
    /\ valid_set.data = << << <<1>>, <<3, 1, 2>> >> >>

(***************************************************************************)
(* SpecComplete: RNN.py complete(model, prompt, steps, sample), called     *)
(* once my_data exists.  The frame cmp holds the call's locals:            *)
(*   prompt_list, out_list, the loop index k, and x, the next model input, *)
(*   of which only the type matters here: a tensor or a Python int.        *)
(* cmp.pc is "decode" inside the loop of line 235, "returned" after line   *)
(* 244, "raised" when an exception left the function.  ''.join(out_list)   *)
(* is kept as the sequence of its pieces.                                  *)
(***************************************************************************)
InitComplete ==
    /\ NoVocabulary /\ last = NoCall
    /\ \E text_file \in TextsUpTo(MaxCorpusLen) \ {<<>>} :
          LET r == text_to_data(text_file, None, TRUE)
          IN  my_data = [status |-> "built", data |-> r.data, vocab |-> r.vocab,
                         text_file |-> text_file, vocab_arg |-> None,
                         extend_vocab |-> TRUE]
    /\ batches = Unbuilt
    /\ NoParallelData /\ NoRuns

\* The IDs the model can emit: num_classes = len(my_data.vocab.id_to_string).
Classes == 0..(VocabLen(my_data.vocab) - 1)

\* Lines 216-219: prompt_list.append(my_data.vocab.string_to_id[char]).
\* A dictionary subscript raises KeyError on a missing key; prompt_list then
\* holds the IDs of the characters before the first missing one.
PromptList(prompt) ==
    LET missing == {k \in 1..Len(prompt) :
                       prompt[k] \notin DOMAIN my_data.vocab.string_to_id}
        first == CHOOSE k \in missing : \A j \in missing : k <= j
        n == IF missing = {} THEN Len(prompt) ELSE first - 1
    IN  [raised |-> missing # {},
         prompt_list |-> [k \in 1..n |-> my_data.vocab.string_to_id[prompt[k]]]]

\* Lines 212-232: the call, up to the first decoded character.
CompleteCall(prompt, steps, sample) ==
    /\ cmp = Idle
    /\ LET p == PromptList(prompt)
       IN  IF p.raised
           THEN cmp' = [pc |-> "raised", error |-> "KeyError", prompt |-> prompt,
                        steps |-> steps, sample |-> sample,
                        prompt_list |-> p.prompt_list,
                        out_list |-> <<>>, x |-> "none", k |-> 0]
           ELSE \E ix \in Classes :
                   cmp' = [pc |-> "decode", error |-> "none", prompt |-> prompt,
                           steps |-> steps, sample |-> sample,
                           prompt_list |-> p.prompt_list,
                           out_list |-> <<my_data.vocab.id_to_string[ix]>>,
                           x |-> "tensor", k |-> 0]
    /\ UNCHANGED <<script, vocab, src_vocab, trg_vocab, last, my_data, batches,
                   train_set, valid_set, gs, tr, posenc, lstm>>

\* Lines 235-243: one iteration of `for k in range(steps)`.  With sample=True
\* line 239 takes .item(), so line 243 leaves a Python int in x, and the next
\* iteration's model(x, ...) raises TypeError in the embedding lookup.
CompleteStep ==
    /\ cmp.pc = "decode"
    /\ cmp.k < cmp.steps
    /\ IF cmp.x = "int"
       THEN cmp' = [cmp EXCEPT !.pc = "raised", !.error = "TypeError"]
       ELSE \E ix \in Classes :
               cmp' = [cmp EXCEPT !.out_list = Append(@, my_data.vocab.id_to_string[ix]),
                                  !.x = IF cmp.sample THEN "int" ELSE "tensor",
                                  !.k = @ + 1]
    /\ UNCHANGED <<script, vocab, src_vocab, trg_vocab, last, my_data, batches,
                   train_set, valid_set, gs, tr, posenc, lstm>>

\* Line 244: return ''.join(out_list)
CompleteReturn ==
    /\ cmp.pc = "decode"
    /\ cmp.k = cmp.steps
    /\ cmp' = [cmp EXCEPT !.pc = "returned"]
    /\ UNCHANGED <<script, vocab, src_vocab, trg_vocab, last, my_data, batches,
                   train_set, valid_set, gs, tr, posenc, lstm>>

Prompts == TextsUpTo(MaxPromptLen) \ {<<>>}

NextComplete ==
    \/ \E prompt \in Prompts, steps \in 0..MaxSteps, sample \in BOOLEAN :
          CompleteCall(prompt, steps, sample)
    \/ CompleteStep
    \/ CompleteReturn

SpecComplete == InitComplete /\ [][NextComplete]_vars

\* C8: complete() never fails because of a prompt character that is absent
\* from the vocabulary: every such character is encoded as the unknown ID 1
\* and decoding goes on.
C8_UnknownPromptChar ==
    (/\ cmp.pc # "idle"
     /\ \E k \in 1..Len(cmp.prompt) :
           cmp.prompt[k] \notin DOMAIN my_data.vocab.string_to_id)
    => /\ cmp.error # "KeyError"
       /\ Len(cmp.prompt_list) = Len(cmp.prompt)
       /\ \A k \in 1..Len(cmp.prompt) :
             cmp.prompt[k] \notin DOMAIN my_data.vocab.string_to_id
                => cmp.prompt_list[k] = my_data.vocab.unk_id

(***************************************************************************)
(* SpecGreedy: Transformermodel.py TransformerModel.greedy_search(src, tgt,*)
(* max_len, start_token, eos_token).  src is a tensor of token IDs of      *)
(* shape (S, B), kept as its S rows of B IDs; tgt has T rows.  Line 341    *)
(* gives the encoder src itself, not the embedding `out` of lines 338-339, *)
(* and nn.TransformerEncoder refuses a 2-D tensor of IDs, so the call      *)
(* ends there: lines 343-362, the decoding loop, are never reached.  The   *)
(* frame gs holds the arguments, the error and the line that raised it,    *)
(* and pred, which line 345 would have bound.                              *)
(***************************************************************************)
d_model == 256
default_max_len == 5000

SrcTokens == {0, 1}

Srcs == UNION {[1..S -> [1..B -> SrcTokens]] : S \in 1..MaxSrcLen, B \in 0..MaxBatch}

\* Line 341: self.encoder(src) on the (S, B) tensor of IDs.  Attention reads
\* the last dimension, B, as the embedding dimension and asserts it is
\* d_model; were it so, the integer tensor would fail in the first linear map.
encoder_on_ids(src) ==
    IF Len(src[1]) # d_model THEN "AssertionError" ELSE "RuntimeError"

InitGreedy ==
    /\ NoVocabulary /\ last = NoCall
    /\ NoRNNData /\ NoParallelData
    /\ cmp = Idle /\ gs = Idle /\ tr = Idle /\ posenc = Idle /\ lstm = Idle

\* Lines 329-341: the call.  Lines 337 and 339 pass tgt and src through the
\* positional encoder (line 238 asserts on their row counts); line 341 raises.
GreedyCall(src, T, max_len) ==
    /\ gs = Idle
    /\ LET S == Len(src)
           B == Len(src[1])
           frame == [pc |-> "raised", error |-> "AssertionError", at |-> 0,
                     src |-> src, B |-> B, T |-> T, max_len |-> max_len,
                     pred |-> <<>>]
       IN  IF ~(T < default_max_len)
           THEN gs' = [frame EXCEPT !.at = 337]
           ELSE IF ~(S < default_max_len)
           THEN gs' = [frame EXCEPT !.at = 339]
           ELSE gs' = [frame EXCEPT !.error = encoder_on_ids(src), !.at = 341]
    /\ UNCHANGED <<script, vocab, src_vocab, trg_vocab, last, my_data, batches,
                   train_set, valid_set, cmp, tr, posenc, lstm>>

NextGreedy ==
    \E src \in Srcs, T \in 1..MaxTgtLen, max_len \in 0..MaxDecodeLen :
        GreedyCall(src, T, max_len)

SpecGreedy == InitGreedy /\ [][NextGreedy]_vars

\* C9: greedy_search starts every batch element from a single start-marker,
\* ends its loop at the first step at which every element has emitted the
\* end-marker (at that or an earlier step) or the length limit is exceeded,
\* and returns one predicted token list per batch element.  Stated of a call
\* with at least one batch element and max_len >= 1, once it has ended.
C9_GreedySearch ==
    (gs.pc \in {"returned", "raised"} /\ gs.B >= 1 /\ gs.max_len >= 1) =>
        /\ gs.pc = "returned"
        /\ Len(gs.pred) = gs.B

(***************************************************************************)
(* SpecTrain: Transformermodel.py lines 399-453, the training loop.        *)
(* Gradients are kept by provenance: grad is the set of training           *)
(* iterations (of the current epoch) whose backward pass has added into    *)
(* the parameters' .grad buffers since they were last zeroed; clipping     *)
(* rescales the buffers and leaves that set as it is.  applied lists the   *)
(* optimizer.step() calls with the grad each one consumed.  A batch is     *)
(* named by the loader, epoch and index that yielded it.                   *)
(* The frame tr holds:                                                     *)
(*   accumulation_steps, and the lengths of the two loaders                *)
(*   epoch, i      the loop variables                                      *)
(*   src, tgt      the names bound by line 406                             *)
(*   fed           the (source, target, loss target) of the last forward   *)
(*                 pass and loss                                           *)
(***************************************************************************)
num_epochs == 3

NoBatch == <<"none", 0, 0>>

InitTrain ==
    /\ NoVocabulary /\ last = NoCall
    /\ NoRNNData /\ NoParallelData
    /\ cmp = Idle /\ gs = Idle /\ posenc = Idle /\ lstm = Idle
    /\ \E accumulation_steps \in 1..MaxAccum, n_train \in 1..MaxTrainBatches,
          n_valid \in 1..MaxValidBatches :
          tr = [pc |-> "train", accumulation_steps |-> accumulation_steps,
                n_train |-> n_train, n_valid |-> n_valid,
                epoch |-> 0, i |-> 0, grad |-> {}, applied |-> <<>>,
                src |-> NoBatch, tgt |-> NoBatch,
                fed |-> <<NoBatch, NoBatch, NoBatch>>]

\* Lines 406-427: one iteration of the loop over train_data_loader.
\*   409 optimizer.zero_grad()         the buffers are emptied
\*   413-421 forward, loss, backward   this iteration's gradient is added
\*   423 clip_grad_norm_
\*   426-427 optimizer.step() when (i + 1) % accumulation_steps == 0
TrainIter ==
    /\ tr.pc = "train"
    /\ tr.i < tr.n_train
    /\ LET src == <<"train", tr.epoch, tr.i>>
           tgt == <<"train", tr.epoch, tr.i>>
           zeroed == {}
           grad == zeroed \cup {tr.i}
           step == (tr.i + 1) % tr.accumulation_steps = 0
       IN  tr' = [tr EXCEPT
                    !.src = src, !.tgt = tgt,
                    !.fed = <<src, tgt, tgt>>,
                    !.grad = grad,
                    !.applied = IF step
                                THEN Append(@, [epoch |-> tr.epoch, i |-> tr.i,
                                                grad |-> grad])
                                ELSE @,
                    !.i = @ + 1]
    /\ UNCHANGED <<script, vocab, src_vocab, trg_vocab, last, my_data, batches,
                   train_set, valid_set, cmp, gs, posenc, lstm>>

\* Line 438: the training loader is exhausted; model.eval(), and the loop over
\* valid_data_loader begins.
TrainEnd ==
    /\ tr.pc = "train"
    /\ tr.i = tr.n_train
    /\ tr' = [tr EXCEPT !.pc = "valid", !.i = 0]
    /\ UNCHANGED <<script, vocab, src_vocab, trg_vocab, last, my_data, batches,
                   train_set, valid_set, cmp, gs, posenc, lstm>>

\* Line 440: the batch valid_data_loader yields at iteration i of an epoch.
ValidBatch(epoch, i) == <<"valid", epoch, i>>

\* Lines 440-450: one iteration of the loop over valid_data_loader, under
\* no_grad.  Line 440 binds valsrc, valtgt to the yielded batch; line 442
\* rebinds them to src.to(DEVICE), tgt.to(DEVICE); line 448 takes the loss
\* against tgt.
ValidIter ==
    /\ tr.pc = "valid"
    /\ tr.i < tr.n_valid
    /\ LET yielded == ValidBatch(tr.epoch, tr.i)
           valsrc == tr.src
           valtgt == tr.tgt
       IN  tr' = [tr EXCEPT !.fed = <<valsrc, valtgt, tr.tgt>>, !.i = @ + 1]
    /\ UNCHANGED <<script, vocab, src_vocab, trg_vocab, last, my_data, batches,
                   train_set, valid_set, cmp, gs, posenc, lstm>>

\* Lines 451-453 and back to line 399: the next epoch, or the end.  Line 451
\* divides by i, the index of the last validation iteration: with a loader of
\* one batch that is a division by zero.
ValidEnd ==
    /\ tr.pc = "valid"
    /\ tr.i = tr.n_valid
    /\ LET i == tr.n_valid - 1
       IN  IF i = 0
           THEN tr' = [tr EXCEPT !.pc = "ZeroDivisionError"]
           ELSE tr' = [tr EXCEPT !.pc = IF tr.epoch + 1 < num_epochs THEN "train"
                                        ELSE "done",
                                 !.epoch = @ + 1, !.i = 0]
    /\ UNCHANGED <<script, vocab, src_vocab, trg_vocab, last, my_data, batches,
                   train_set, valid_set, cmp, gs, posenc, lstm>>

NextTrain == TrainIter \/ TrainEnd \/ ValidIter \/ ValidEnd

SpecTrain == InitTrain /\ [][NextTrain]_vars

\* The training iterations of the current epoch that have run.
Ran == IF tr.pc = "train" THEN 0..(tr.i - 1) ELSE 0..(tr.n_train - 1)

\* C10: with accumulation_steps = N the optimizer steps exactly at the
\* iterations i with (i + 1) mod N = 0, and the gradient it applies there is
\* the accumulation of the gradients of all N iterations since the previous
\* step.
C10_Accumulation ==
    tr.pc # "idle" =>
        LET N == tr.accumulation_steps
        IN  /\ \A k \in 1..Len(tr.applied) :
                  /\ (tr.applied[k].i + 1) % N = 0
                  /\ tr.applied[k].grad = (tr.applied[k].i + 1 - N)..tr.applied[k].i
            /\ tr.epoch < num_epochs =>
                  \A i \in Ran : (i + 1) % N = 0 =>
                      \E k \in 1..Len(tr.applied) :
                          tr.applied[k].epoch = tr.epoch /\ tr.applied[k].i = i

(***************************************************************************)
(* Transformermodel.py:214-242  class PositionalEncoding.                  *)
(* A tensor of shape (sequence length, batch, dim) is the sequence of its  *)
(* rows along dimension 0; a row of the input is named by a number, row p  *)
(* of the buffer `pe` by the position p it encodes, and the sum of an      *)
(* input row and a buffer row by the pair of the two.  dropout is built    *)
(* with p = 0.0 (line 257 passes no other value) and returns its input.    *)
(***************************************************************************)
Rows == 0..1

Inputs == UNION {[1..n -> Rows] : n \in 0..MaxSeqLen}

\* Lines 221-228: pe has max_len rows, row `position` for position 0..max_len-1.
PositionalEncoding(max_len) ==
    [pc |-> "built", max_len |-> max_len, pe |-> [p \in 1..max_len |-> p - 1],
     x |-> <<>>, out |-> <<>>]

\* Line 241: x + self.pe[:x.size(0), :], row by row.
AddPe(x, pe) ==
    LET rows == PySlice(pe, 0, Len(x))
    IN  [p \in 1..Len(x) |-> [x |-> x[p], pe |-> rows[p]]]

InitPosEnc ==
    /\ NoVocabulary /\ last = NoCall
    /\ NoRNNData /\ NoParallelData
    /\ cmp = Idle /\ gs = Idle /\ tr = Idle /\ lstm = Idle
    /\ \E max_len \in 1..MaxPosLen : posenc = PositionalEncoding(max_len)

\* Lines 230-242: forward(x).
PosEncForward(x) ==
    /\ posenc # Idle
    /\ IF Len(x) < posenc.max_len
       THEN posenc' = [posenc EXCEPT !.pc = "returned", !.x = x,
                                     !.out = AddPe(x, posenc.pe)]
       ELSE posenc' = [posenc EXCEPT !.pc = "AssertionError", !.x = x,
                                     !.out = <<>>]
    /\ UNCHANGED <<script, vocab, src_vocab, trg_vocab, last, my_data, batches,
                   train_set, valid_set, cmp, gs, tr, lstm>>

NextPosEnc == \E x \in Inputs : PosEncForward(x)

SpecPosEnc == InitPosEnc /\ [][NextPosEnc]_vars

\* C11: forward accepts every input whose sequence length is at most max_len,
\* returning the input with the positional signal of position p added to row
\* p, and fails with an assertion, nothing added, exactly when the sequence
\* length exceeds max_len.
C11_PositionalEncoding ==
    posenc.pc \in {"returned", "AssertionError"} =>
        /\ posenc.pc = "AssertionError" <=> Len(posenc.x) > posenc.max_len
        /\ posenc.pc = "returned" =>
               posenc.out = [p \in 1..Len(posenc.x) |->
                                [x |-> posenc.x[p], pe |-> p - 1]]
        /\ posenc.pc = "AssertionError" => posenc.out = <<>>

(***************************************************************************)
(* RNN.py:274-307  the LSTM training loop.                                 *)
(* A recurrent state tensor of shape (num_layers, lanes, hidden_dim) is    *)
(* the sequence of its lanes.  A lane of a state made by init_hidden is    *)
(* Zero; a lane of the state returned by the forward pass of step idx of   *)
(* epoch ep is named by that step.  The loop reads my_data and batches as  *)
(* lines 156-157 built them: batches has batch_size lanes in every window. *)
(* Step 0 of epoch 0 reports (0 % report_every = 0), and the call of line  *)
(* 301, complete(model, prompt, 128, sample=True), raises: the loop takes  *)
(* no other step, and line 307 is not reached.                             *)
(***************************************************************************)
Zero == [zero |-> TRUE]

\* Lines 188-190: two tensors of zeros with bsz lanes.
init_hidden(bsz) == <<[l \in 1..bsz |-> Zero], [l \in 1..bsz |-> Zero]>>

\* Lines 194-195: detach() shares the values.
custom_detach(h, c) == <<h, c>>

\* Lines 181-186 with nn.LSTM: a state whose lane count is not the input's is
\* refused.  An input of no rows is refused by the builds of the library that
\* are `strict`; in the others the recurrence makes no step over it.
forward(rows, lanes, state, ep, idx, strict) ==
    IF Len(state[1]) # lanes \/ Len(state[2]) # lanes
    THEN [error |-> "RuntimeError", state |-> state]
    ELSE IF rows = 0
    THEN [error |-> IF strict THEN "RuntimeError" ELSE "none", state |-> state]
    ELSE [error |-> "none",
          state |-> <<[l \in 1..lanes |-> [of |-> "h", ep |-> ep, idx |-> idx, lane |-> l]],
                      [l \in 1..lanes |-> [of |-> "c", ep |-> ep, idx |-> idx, lane |-> l]]>>]

\* Lines 200-244 as the loop sees them: how a call of complete() ends.
CompleteOutcome(prompt_known, steps, sample) ==
    IF ~prompt_known THEN "KeyError"
    ELSE IF sample /\ steps >= 2 THEN "TypeError"
    ELSE "none"

\* Lines 222-236: state_h and state_c are assigned in complete(), hence local
\* to it; the module's state_h and state_c after the call are those before.
complete_state(state) == state

NoState == <<<<>>, <<>>>>

\* Lines 153-157 and 269-271: the data, the windows and the hyperparameters.
InitLSTM ==
    /\ NoVocabulary /\ last = NoCall
    /\ NoParallelData
    /\ cmp = Idle /\ gs = Idle /\ tr = Idle /\ posenc = Idle
    /\ \E text_file \in TextsUpTo(MaxCorpusLen) \ {<<>>}, batch_size \in 1..MaxLanes,
          bptt_len \in 1..MaxBptt, report_every \in 1..MaxReport, prompt \in Prompts :
          LET r == text_to_data(text_file, None, TRUE)
              b == create_batch(r.data, batch_size, bptt_len, 0)
          IN  /\ my_data = [status |-> "built", data |-> r.data, vocab |-> r.vocab,
                            text_file |-> text_file, vocab_arg |-> None,
                            extend_vocab |-> TRUE]
              /\ batches = [status |-> "built", batches |-> b.batches, locals |-> b]
              /\ lstm = [pc |-> "epoch", error |-> "none",
                         batch_size |-> batch_size, report_every |-> report_every,
                         prompt |-> prompt, num_epochs |-> MaxEpochs,
                         ep |-> 0, idx |-> 0, state |-> NoState,
                         ran |-> FALSE, at |-> <<0, 0>>, bsz |-> 0,
                         carried |-> NoState, fed |-> NoState,
                         ret |-> NoState, prev_ret |-> NoState, reported |-> FALSE]

\* Lines 274-276: the head of an epoch.
LstmEpoch ==
    /\ lstm.pc = "epoch"
    /\ lstm.ep < lstm.num_epochs
    /\ lstm' = [lstm EXCEPT !.pc = "loop", !.idx = 0,
                            !.state = init_hidden(lstm.batch_size),
                            !.ran = FALSE]
    /\ UNCHANGED <<script, vocab, src_vocab, trg_vocab, last, my_data, batches,
                   train_set, valid_set, cmp, gs, tr, posenc>>

\* Lines 277-305: one iteration.  `here` is the frame with what the iteration
\* has recorded when it reaches line 288.
LstmStep ==
    /\ lstm.pc = "loop"
    /\ lstm.idx < Len(batches.batches)
    /\ \E strict \in BOOLEAN :
       LET batch == batches.batches[lstm.idx + 1]
           detached == custom_detach(lstm.state[1], lstm.state[2])
           input == PySlice(batch, 0, Len(batch) - 1)
           bsz == Len(batch[1])
           prev_bsz == Len(detached[1])
           here == [lstm EXCEPT !.ran = TRUE, !.at = <<lstm.ep, lstm.idx>>,
                                !.bsz = bsz, !.carried = detached,
                                !.state = detached, !.prev_ret = lstm.ret,
                                !.fed = NoState, !.ret = NoState,
                                !.reported = FALSE]
           out == forward(Len(input), bsz, detached, lstm.ep, lstm.idx, strict)
           report == lstm.idx % lstm.report_every = 0
           outcome == CompleteOutcome(~PromptList(lstm.prompt).raised, 128, TRUE)
           last_idx == lstm.idx + 1 = Len(batches.batches)
       IN  IF bsz # prev_bsz
           THEN \* line 289: the name `state` is bound nowhere
                lstm' = [here EXCEPT !.pc = "raised", !.error = "NameError"]
           ELSE IF out.error # "none"
           THEN lstm' = [here EXCEPT !.pc = "raised", !.error = out.error,
                                     !.fed = detached]
           ELSE IF report /\ outcome # "none"
           THEN lstm' = [here EXCEPT !.pc = "raised", !.error = outcome,
                                     !.fed = detached, !.ret = out.state,
                                     !.state = IF outcome = "KeyError" THEN out.state
                                               ELSE complete_state(out.state),
                                     !.reported = TRUE]
           ELSE lstm' = [here EXCEPT !.pc = IF last_idx THEN "epoch" ELSE "loop",
                                     !.ep = IF last_idx THEN @ + 1 ELSE @,
                                     !.idx = @ + 1,
                                     !.fed = detached, !.ret = out.state,
                                     !.state = IF report THEN complete_state(out.state)
                                               ELSE out.state,
                                     !.reported = report]
    /\ UNCHANGED <<script, vocab, src_vocab, trg_vocab, last, my_data, batches,
                   train_set, valid_set, cmp, gs, tr, posenc>>

NextLSTM == LstmEpoch \/ LstmStep

SpecLSTM == InitLSTM /\ [][NextLSTM]_vars

\* The carried state cut to its first bsz lanes.
Narrowed(state, bsz) == <<PySlice(state[1], 0, bsz), PySlice(state[2], 0, bsz)>>

\* C12: a step whose batch has a lane count other than the carried state's
\* narrows the carried hidden and cell state to the batch's lane count,
\* keeping the retained lanes' values, and its forward pass runs with a state
\* of the batch's lane count.
C12_NarrowState ==
    (lstm.pc # "idle" /\ lstm.ran /\ lstm.bsz # Len(lstm.carried[1])) =>
        /\ lstm.error # "NameError"
        /\ lstm.fed = Narrowed(lstm.carried, lstm.bsz)
        /\ Len(lstm.fed[1]) = lstm.bsz /\ Len(lstm.fed[2]) = lstm.bsz

\* The forward pass of the step last entered has run.
Fed == lstm.pc # "idle" /\ lstm.ran /\ lstm.error # "NameError"

C14_ValidationBatches ==
    (tr.pc = "valid" /\ tr.i >= 1) =>
        LET yielded == ValidBatch(tr.epoch, tr.i - 1)
        IN  tr.fed = <<yielded, yielded, yielded>>

====
